---- MODULE Spec2Model ----
(***************************************************************************)
(* Verification model of dashboard_Pro.py (radial distribution grid        *)
(* digital twin): session state, the sidebar operator commands, the page   *)
(* fragments that tick the simulation, the recloser state machine, the     *)
(* relay accumulator, the BESS dispatch, the tap changer / capacitor bank  *)
(* controllers and the symmetrical-component fault solver.                 *)
(*                                                                         *)
(* Numbers.  Python floats are modelled by exact arithmetic:               *)
(*   - the fault solver works on rationals <<n, d>> (d > 0, lowest terms); *)
(*   - tap_position is counted in steps of 0.005 pu (TapScale per pu);     *)
(*   - bess_soc is counted in 1/SocScale percent;                          *)
(*   - relay_accumulator is counted in 1/AccScale percent;                 *)
(*   - voltages are in milli-pu, powers in kW / kvar;                      *)
(*   - grid_freq is counted in micro-Hz (FreqScale per Hz) and mech_power  *)
(*     in units of 0.05 W (PowScale per kW), the unit in which the         *)
(*     governor moves mech_power by exactly one per micro-Hz.              *)
(***************************************************************************)
EXTENDS Integers, Sequences, FiniteSets, TLC

\* ------------------------------------------------------------------------
\* Bounds of the model
\* ------------------------------------------------------------------------
MaxLen ==
    3

MaxEvals ==
    11

MaxAcc ==
    100

DataLen ==
    2

BessLen ==
    24

\* ------------------------------------------------------------------------
\* Program constants
\* ------------------------------------------------------------------------
BESS_CAPACITY_KWH ==
    500

BESS_MAX_POWER ==
    100

HistWindow ==
    60

WaitLimit ==
    5

TapScale ==
    200

SocScale ==
    (60 * BESS_CAPACITY_KWH) \div 100

AccScale ==
    1

NOMINAL_FREQ ==
    50

INERTIA_H ==
    5

DAMPING_D ==
    1

SYSTEM_BASE_MVA ==
    10

FreqScale ==
    1000000

PowScale ==
    20000

FaultTypes ==
    {"LG", "LL", "LLG", "LLL"}

bus_list ==
    {"bus1", "bus1005"}

SOLAR_BUS_CONFIG ==
    [b \in {"bus1005"} |-> 100]

Speeds ==
    {1, 2, 4, 10}

RecloserStates ==
    {"CLOSED", "TRIPPED", "WAITING", "RECLOSE", "LOCKOUT"}

\* ------------------------------------------------------------------------
\* Exact rational arithmetic (stands for the float arithmetic of the code)
\* ------------------------------------------------------------------------
Abs(n) ==
    IF n < 0 THEN -n ELSE n

Max(a, b) ==
    IF a > b THEN a ELSE b

Min(a, b) ==
    IF a < b THEN a ELSE b

RECURSIVE Gcd(_, _)
Gcd(a, b) ==
    IF b = 0 THEN a ELSE Gcd(b, a % b)

Rat(n, d) ==
    LET g == Gcd(Abs(n), Abs(d))
        s == IF d < 0 THEN -1 ELSE 1
    IN  <<(s * n) \div g, (s * d) \div g>>

\* The sum over the least common denominator (keeps the integers small).
RAdd(x, y) ==
    LET g == Gcd(x[2], y[2])
    IN  Rat(x[1] * (y[2] \div g) + y[1] * (x[2] \div g), (x[2] \div g) * y[2])

RMul(x, y) ==
    Rat(x[1] * y[1], x[2] * y[2])

RInv(x) ==
    Rat(x[2], x[1])

RAbs(x) ==
    <<Abs(x[1]), x[2]>>

RIsZero(x) ==
    x[1] = 0

RLeq(x, y) ==
    x[1] * y[2] <= y[1] * x[2]

RNeg(x) ==
    <<-x[1], x[2]>>

RSub(x, y) ==
    RAdd(x, RNeg(y))

RLess(x, y) ==
    x[1] * y[2] < y[1] * x[2]

RZero ==
    <<0, 1>>

\* The clamp the solver puts in place of a zero denominator (0.001).
DenomClamp ==
    <<1, 1000>>

\* ------------------------------------------------------------------------
\* Symmetrical-component fault solver
\* ------------------------------------------------------------------------
FAULT_LIBRARY ==
    [t \in FaultTypes |-> IF t = "LL" THEN <<1, 100>> ELSE RZero]

Raised ==
    [raised |-> TRUE, I1 |-> RZero, I2 |-> RZero, I0 |-> RZero]

Returned(i1, i2, i0) ==
    [raised |-> FALSE, I1 |-> i1, I2 |-> i2, I0 |-> i0]

Floor0(denom) ==
    IF RIsZero(denom) THEN DenomClamp ELSE denom

\* Variant: I2 is returned with the sign the current division gives it
\* (opposite to I1) instead of as a magnitude.
LLG_solver_signed(V, Z1, Z2, Z0) ==
    IF RIsZero(RAdd(Z2, Z0))
    THEN Raised
    ELSE LET par   == RMul(RMul(Z2, Z0), RInv(RAdd(Z2, Z0)))
             denom == Floor0(RAdd(Z1, par))
             I1    == RMul(V, RInv(denom))
             I2    == RNeg(RMul(I1, RMul(Z0, RInv(RAdd(Z2, Z0)))))
             I0    == RAbs(RMul(I1, RMul(Z2, RInv(RAdd(Z2, Z0)))))
         IN  Returned(RAbs(I1), I2, I0)

\* Variant: I0 takes the same share Z0 / (Z2 + Z0) of I1 as I2.
LLG_solver_same_share(V, Z1, Z2, Z0) ==
    IF RIsZero(RAdd(Z2, Z0))
    THEN Raised
    ELSE LET par   == RMul(RMul(Z2, Z0), RInv(RAdd(Z2, Z0)))
             denom == Floor0(RAdd(Z1, par))
             I1    == RMul(V, RInv(denom))
             I2    == RAbs(RMul(I1, RMul(Z0, RInv(RAdd(Z2, Z0)))))
             I0    == RAbs(RMul(I1, RMul(Z0, RInv(RAdd(Z2, Z0)))))
         IN  Returned(RAbs(I1), I2, I0)

LLG_solver(V, Z1, Z2, Z0) ==
    IF RIsZero(RAdd(Z2, Z0))
    THEN Raised
    ELSE LET par   == RMul(RMul(Z2, Z0), RInv(RAdd(Z2, Z0)))
             denom == Floor0(RAdd(Z1, par))
             I1    == RMul(V, RInv(denom))
             I2    == RAbs(RMul(I1, RMul(Z0, RInv(RAdd(Z2, Z0)))))
             I0    == RAbs(RMul(I1, RMul(Z2, RInv(RAdd(Z2, Z0)))))
         IN  Returned(RAbs(I1), I2, I0)

\* Variant: the zero-sequence impedance is left out of the L-G loop and the
\* fault impedance is counted three times in the L-L-L loop.
compute_symmetrical_components_wrong_loop(fault_type, V, Z1, Z2, Z0, Zf) ==
    CASE fault_type = "LG" ->
           LET denom == Floor0(RAdd(RAdd(Z1, Z2), RMul(<<3, 1>>, Zf)))
               I_seq == RMul(V, RInv(denom))
           IN  Returned(I_seq, I_seq, I_seq)
      [] fault_type = "LL" ->
           LET denom == Floor0(RAdd(RAdd(Z1, Z2), Zf))
               I1    == RMul(V, RInv(denom))
           IN  Returned(RAbs(I1), RAbs(I1), RZero)
      [] fault_type = "LLG" ->
           LLG_solver(V, Z1, Z2, Z0)
      [] fault_type = "LLL" ->
           LET denom == Floor0(RAdd(Z1, RMul(<<3, 1>>, Zf)))
               I1    == RMul(V, RInv(denom))
           IN  Returned(I1, RZero, RZero)
      [] OTHER -> Returned(RZero, RZero, RZero)

compute_symmetrical_components_physics(fault_type, V, Z1, Z2, Z0, Zf) ==
    CASE fault_type = "LG" ->
           LET denom == Floor0(RAdd(RAdd(RAdd(Z1, Z2), Z0), RMul(<<3, 1>>, Zf)))
               I_seq == RMul(V, RInv(denom))
           IN  Returned(I_seq, I_seq, I_seq)
      [] fault_type = "LL" ->
           LET denom == Floor0(RAdd(RAdd(Z1, Z2), Zf))
               I1    == RMul(V, RInv(denom))
           IN  Returned(RAbs(I1), RAbs(I1), RZero)
      [] fault_type = "LLG" ->
           LLG_solver(V, Z1, Z2, Z0)
      [] fault_type = "LLL" ->
           LET denom == Floor0(RAdd(Z1, Zf))
               I1    == RMul(V, RInv(denom))
           IN  Returned(I1, RZero, RZero)
      [] OTHER -> Returned(RZero, RZero, RZero)

\* convert_seq_to_phase on real sequence currents.  With a = -1/2 + j sqrt(3)/2
\* the phase currents are ia = I0 + I1 + I2,
\* ib = I0 - (I1 + I2)/2 + j (sqrt(3)/2)(I2 - I1) and ic = conj(ib).
\* Ia is the magnitude abs(ia); Ib2 and Ic2 are the squares of the magnitudes
\* abs(ib) and abs(ic), which are rational where the magnitudes are not.
convert_seq_to_phase(I0, I1, I2) ==
    LET re   == RSub(I0, RMul(<<1, 2>>, RAdd(I1, I2)))
        imb2 == RMul(<<3, 4>>, RMul(RSub(I2, I1), RSub(I2, I1)))
        imc2 == RMul(<<3, 4>>, RMul(RSub(I1, I2), RSub(I1, I2)))
    IN  [Ia  |-> RAbs(RAdd(RAdd(I0, I1), I2)),
         Ib2 |-> RAdd(RMul(re, re), imb2),
         Ic2 |-> RAdd(RMul(re, re), imc2)]

\* max(Ia, Ib, Ic) of convert_seq_to_phase for sequence currents that are
\* non-negative reals: Ia = I0 + I1 + I2 and |Ib|, |Ic| <= I0 + I1 + I2.
max_phase_current(s) ==
    RAdd(RAdd(s.I0, s.I1), s.I2)

\* calculate_iec_trip_time in milliseconds, rounded up, at the currents the
\* solver yields with the default impedances; 0 stands for None.
calculate_iec_trip_time(current_pu) ==
    IF RLeq(current_pu, <<1, 1>>) THEN 0
    ELSE CASE current_pu = <<3, 1>>    -> 3151
           [] current_pu = <<200, 41>> -> 2174
           [] current_pu = <<40, 7>>   -> 1974
           [] current_pu = <<5, 1>>    -> 2140
           [] OTHER                    -> 9999000

\* ------------------------------------------------------------------------
\* Gauss-Newton WLS state estimator (StateEstimator.solve)
\* ------------------------------------------------------------------------
\* The loop is followed pass by pass.  The flat start x = [1.0, 0.0] is
\* evaluated exactly (cmath.rect(1.0, 0.0) = 1 + 0j); once a step dx has been
\* added, x is a float the model does not compute: the estimate is then
\* marked unknown and the outcomes of the convergence test and of
\* np.linalg.solve at that x are both possible.
max_iter ==
    10

\* Variant: a tolerance of zero, which no residual is strictly below.
tol_zero ==
    <<0, 1>>

tol ==
    <<1, 10000>>

\* The diagonal of W.
W_diag ==
    <<10000, 100, 100>>

Unknown ==
    [known |-> FALSE, val |-> RZero]

Known(v) ==
    [known |-> TRUE, val |-> v]

\* h(x) at the flat start: V_c = 1, I_c = (V_s - 1) / (R + jX),
\* S_c = V_c * conj(I_c) = (V_s - 1)(R + jX) / (R^2 + X^2).
h_flat(V_source, R, X) ==
    LET z2 == RAdd(RMul(R, R), RMul(X, X))
        dv == RSub(V_source, <<1, 1>>)
    IN  <<(<<1, 1>>), RMul(RMul(dv, R), RInv(z2)), RMul(RMul(dv, X), RInv(z2))>>

residual_vector(z, h) ==
    <<RSub(z[1], h[1]), RSub(z[2], h[2]), RSub(z[3], h[3])>>

\* np.max(np.abs(r)) < tol
below_tol(r) ==
    RLess(RAbs(r[1]), tol) /\ RLess(RAbs(r[2]), tol) /\ RLess(RAbs(r[3]), tol)

\* J = r.T W r
chi_square(r) ==
    RAdd(RAdd(RMul(<<W_diag[1], 1>>, RMul(r[1], r[1])),
              RMul(<<W_diag[2], 1>>, RMul(r[2], r[2]))),
         RMul(<<W_diag[3], 1>>, RMul(r[3], r[3])))

\* The estimator call: the arguments and locals of solve, and of its caller
\* run_wls_state_estimation the measurements as given (V in pu, P in kW,
\* Q in kvar), the fdi_attack flag read and the voltage v_ref the residual
\* abs(measured_v_pu - est_v) is taken from.
WlsIdle ==
    [pc |-> "idle", i |-> 0, flat |-> TRUE, z |-> <<RZero, RZero, RZero>>,
     V_source |-> RZero, R |-> RZero, X |-> RZero, exit |-> "none",
     est_v |-> Unknown, J |-> Unknown, r_at_x |-> TRUE,
     given |-> <<RZero, RZero, RZero>>, fdi |-> FALSE, v_ref |-> RZero]

\* Entry of solve: the flat start, before the first pass of the loop.
solve_entry(z, V_source, R, X) ==
    [WlsIdle EXCEPT !.pc = "loop", !.z = z, !.V_source = V_source,
                    !.R = R, !.X = X]

\* The return statement: x[0] and J = r.T W r for the r of the last pass.
\* x[0] is 1.0 while x is the flat start; r is the flat-start residual when
\* it was computed there (r_x: r was computed at the x that is returned).
solve_return(w, exit, x_flat, r_flat, r_x) ==
    [w EXCEPT !.pc = "returned", !.exit = exit, !.flat = x_flat,
              !.est_v = IF x_flat THEN Known(<<1, 1>>) ELSE Unknown,
              !.J = IF r_flat
                    THEN Known(chi_square(residual_vector(w.z, h_flat(w.V_source, w.R, w.X))))
                    ELSE Unknown,
              !.r_at_x = r_x]

\* Variant: np.linalg.solve is called outside any try block, so a singular
\* gain matrix ends the call with LinAlgError.
solve_iteration_uncaught(w, conv, sing) ==
    IF RIsZero(w.R) /\ RIsZero(w.X)
    THEN [w EXCEPT !.pc = "raised"]
    ELSE LET converged == IF w.flat
                          THEN below_tol(residual_vector(w.z, h_flat(w.V_source, w.R, w.X)))
                          ELSE conv
             singular  == IF w.flat /\ ~RIsZero(w.V_source) THEN FALSE ELSE sing
         IN  IF converged THEN solve_return(w, "converged", w.flat, w.flat, TRUE)
             ELSE IF singular THEN [w EXCEPT !.pc = "raised"]
             ELSE IF w.i + 1 < max_iter
                  THEN [w EXCEPT !.i = w.i + 1, !.flat = FALSE]
                  ELSE solve_return([w EXCEPT !.i = w.i + 1], "exhausted",
                                    FALSE, w.flat, FALSE)

\* One pass of the loop body for i = w.i.  conv and sing are the outcomes of
\* the convergence test and of np.linalg.solve raising at an x the model
\* does not compute; at the flat start the test is evaluated and the gain
\* matrix is regular (col_V[0] = 1, col_d[0] = 0, col_d # 0 for V_source # 0).
\* Z = 0 makes (V_s - V_c) / Z raise ZeroDivisionError outside the try block.
solve_iteration(w, conv, sing) ==
    IF RIsZero(w.R) /\ RIsZero(w.X)
    THEN [w EXCEPT !.pc = "raised"]
    ELSE LET converged == IF w.flat
                          THEN below_tol(residual_vector(w.z, h_flat(w.V_source, w.R, w.X)))
                          ELSE conv
             singular  == IF w.flat /\ ~RIsZero(w.V_source) THEN FALSE ELSE sing
         IN  IF converged THEN solve_return(w, "converged", w.flat, w.flat, TRUE)
             ELSE IF singular THEN solve_return(w, "singular", w.flat, w.flat, TRUE)
             ELSE IF w.i + 1 < max_iter
                  THEN [w EXCEPT !.i = w.i + 1, !.flat = FALSE]
                  ELSE solve_return([w EXCEPT !.i = w.i + 1], "exhausted",
                                    FALSE, w.flat, FALSE)

\* ------------------------------------------------------------------------
\* Swing equation and governor (update_grid_physics)
\* ------------------------------------------------------------------------
\* (2H * BASE * 1000 * 20 * PowScale) / (f0 * FreqScale) = 800
PowerDivisor ==
    ((((2 * INERTIA_H * SYSTEM_BASE_MVA * 1000) \div NOMINAL_FREQ) * 20) * PowScale) \div FreqScale

\* (2H * 20) / (2 * f0) = 2
DampDivisor ==
    (2 * INERTIA_H * 20) \div (2 * NOMINAL_FREQ)

\* Integer division rounding toward zero.
TruncDiv(a, b) ==
    IF a >= 0 THEN a \div b ELSE -((-a) \div b)

GridRec(f, pm) ==
    [grid_freq |-> f, mech_power |-> pm]

\* Variant: the damping term enters the acceleration with the opposite sign.
update_grid_physics_antidamped(curr_freq, mech, current_p) ==
    LET governor_response == NOMINAL_FREQ * FreqScale - curr_freq
        curr_Pm    == mech + governor_response
        dev        == curr_freq - NOMINAL_FREQ * FreqScale
        power_term == TruncDiv(curr_Pm - current_p, PowerDivisor)
        damp_term  == TruncDiv(DAMPING_D * 355 * dev, 113 * DampDivisor)
    IN  GridRec(curr_freq + power_term + damp_term, curr_Pm)

\* One call, on the frequency and the mechanical power (the rotor angle and
\* the transformer temperature it also stores are read by no decision).
\*   governor_response * 100 kW = (50 - f) * 50 kW: one unit per micro-Hz;
\*   new_freq = f + dt * accel / (2 pi), accel = (Pm_pu - Pe_pu - D * w_dev) / M,
\*   M = 2H / (2 pi f0), w_dev = 2 pi (f - 50), dt = 1/20, so that
\*   new_freq - f = (Pm - Pe)[kW] / (BASE * 1000) * f0 / (2H * 20)
\*                  - D * 2 pi * (f - 50) * f0 / (2H * 20),
\* that is (Pm - Pe)[units] / PowerDivisor - D * pi * (f - 50) / DampDivisor
\* in micro-Hz, with pi taken as 355/113 and each of the two terms rounded
\* toward zero to a whole micro-Hz.
update_grid_physics(curr_freq, mech, current_p) ==
    LET governor_response == NOMINAL_FREQ * FreqScale - curr_freq
        curr_Pm    == mech + governor_response
        dev        == curr_freq - NOMINAL_FREQ * FreqScale
        power_term == TruncDiv(curr_Pm - current_p, PowerDivisor)
        damp_term  == TruncDiv(DAMPING_D * 355 * dev, 113 * DampDivisor)
    IN  GridRec(curr_freq + power_term - damp_term, curr_Pm)

\* ------------------------------------------------------------------------
\* Smart inverter (Volt-Watt and Volt-VAR)
\* ------------------------------------------------------------------------
InverterRec(p, q) ==
    [p_out |-> p, q_out |-> q]

\* Variant: the curtailment factor is not floored at 0.
smart_inverter_logic_unfloored(v_milli, p_available_kw, capacity_kw) ==
    LET curtail == 1000 - (v_milli - 1050) * 10
        p_out   == IF v_milli > 1050 THEN p_available_kw * curtail
                   ELSE p_available_kw * 1000
        q_out   == IF v_milli > 1020
                   THEN Max(-(capacity_kw * (v_milli - 1020) * 5), -(440 * capacity_kw))
                   ELSE IF v_milli < 980
                        THEN Min(capacity_kw * (980 - v_milli) * 5, 440 * capacity_kw)
                        ELSE 0
    IN  InverterRec(p_out, q_out)

\* Variant: the reactive power request is not capped at 0.44 of the rating.
smart_inverter_logic_uncapped(v_milli, p_available_kw, capacity_kw) ==
    LET curtail == Max(0, 1000 - (v_milli - 1050) * 10)
        p_out   == IF v_milli > 1050 THEN p_available_kw * curtail
                   ELSE p_available_kw * 1000
        q_out   == IF v_milli > 1020
                   THEN -(capacity_kw * (v_milli - 1020) * 5)
                   ELSE IF v_milli < 980
                        THEN capacity_kw * (980 - v_milli) * 5
                        ELSE 0
    IN  InverterRec(p_out, q_out)

\* v_pu in milli-pu, powers in kW; p_out and q_out in W and var
\* (curtail is the curtailment factor in thousandths).
smart_inverter_logic(v_milli, p_available_kw, capacity_kw) ==
    LET curtail == Max(0, 1000 - (v_milli - 1050) * 10)
        p_out   == IF v_milli > 1050 THEN p_available_kw * curtail
                   ELSE p_available_kw * 1000
        q_out   == IF v_milli > 1020
                   THEN Max(-(capacity_kw * (v_milli - 1020) * 5), -(440 * capacity_kw))
                   ELSE IF v_milli < 980
                        THEN Min(capacity_kw * (980 - v_milli) * 5, 440 * capacity_kw)
                        ELSE 0
    IN  InverterRec(p_out, q_out)

\* ------------------------------------------------------------------------
\* History buffers of the feeder page
\* ------------------------------------------------------------------------
\* Lengths of the lists the session starts with (and RESTART restores).
HistoryInitLen ==
    [b \in {"history_tap", "history_se_meas", "history_se_est", "history_se_j",
            "solar_p_history", "solar_q_history", "solar_v_history",
            "solar_irr_history", "solar_temp_history"} |-> 50]
        @@ [b \in {"history_cap"} |-> 24]

\* Length above which the feeder page pops the oldest sample.
HistoryCap ==
    [b \in {"history_tap", "history_se_meas", "history_se_est", "history_se_j",
            "solar_p_history", "solar_q_history", "solar_v_history",
            "solar_irr_history", "solar_temp_history"} |-> 50]
        @@ [b \in {"history_cap"} |-> 24]

solar_irr_init ==
    [i \in 1 .. 50 |-> 0]

\* Variant: the sample is appended and nothing is popped.
push_unbounded(hist, x, cap) ==
    Append(hist, x)

\* hist.append(x); if len(hist) > cap: hist.pop(0)
push(hist, x, cap) ==
    LET a == Append(hist, x)
    IN  IF Len(a) > cap THEN Tail(a) ELSE a

\* The same update on the length of a buffer.
push_len(n, cap) ==
    IF n + 1 > cap THEN n ELSE n + 1

VARIABLES
    idx, len_raw, len_fa, run_simulation, speed,
    fault_active, fault_bus, fault_type,
    recloser_state, recloser_timer, relay_trip, relay_accumulator,
    capacitor_bank_kvAr, apfc_auto_mode, tap_position, auto_tap_mode,
    bess_soc, crashed, evals, timer_before, sc_in, sc_out, ph_out, wls,
    grid_freq, mech_power, pe_in, inv_in, inv_out, rl_in, rl_out,
    fdi_attack, hist_len, solar_irr_history, bess_in, bess_out

vars ==
    <<idx, len_raw, len_fa, run_simulation, speed,
      fault_active, fault_bus, fault_type,
      recloser_state, recloser_timer, relay_trip, relay_accumulator,
      capacitor_bank_kvAr, apfc_auto_mode, tap_position, auto_tap_mode,
      bess_soc, crashed, evals, timer_before, sc_in, sc_out, ph_out, wls,
      grid_freq, mech_power, pe_in, inv_in, inv_out, rl_in, rl_out,
      fdi_attack, hist_len, solar_irr_history, bess_in, bess_out>>

protVars ==
    <<fault_active, fault_bus, fault_type, recloser_state, recloser_timer,
      relay_trip, evals, timer_before>>

feederVars ==
    <<capacitor_bank_kvAr, apfc_auto_mode, tap_position, auto_tap_mode,
      fdi_attack, hist_len, solar_irr_history>>

solverVars ==
    <<sc_in, sc_out, ph_out, wls, inv_in, inv_out, rl_in, rl_out, bess_in, bess_out>>

\* Arguments and results of the last recorded bess_dispatch_logic call.
dispatchVars ==
    <<bess_in, bess_out>>

\* pe_in keeps the current_p handed to the last update_grid_physics call.
gridVars ==
    <<grid_freq, mech_power, pe_in>>

SolverInput(ft, V, Z1, Z2, Z0, Zf) ==
    [ft |-> ft, V |-> V, Z1 |-> Z1, Z2 |-> Z2, Z0 |-> Z0, Zf |-> Zf]

InverterInput(v_milli, p_available_kw, capacity_kw) ==
    [v |-> v_milli, p |-> p_available_kw, cap |-> capacity_kw]

RecloserInput(fa, st, tm, tr) ==
    [fa |-> fa, st |-> st, tm |-> tm, tr |-> tr]

DispatchInput(soc, current_hour, run) ==
    [soc |-> soc, hour |-> current_hour, run |-> run]

\* p_bess as returned and bess_soc as left in the session.
DispatchRec(p_bess, soc) ==
    [p_bess |-> p_bess, soc |-> soc]

NoInput ==
    SolverInput("none", RZero, RZero, RZero, RZero, RZero)

\* Session defaults (lines 518-579) after LOGIN has started the stream.
SessionDefaults ==
    /\ idx = 0
    /\ run_simulation = TRUE
    /\ speed = 2
    /\ fault_active = FALSE
    /\ fault_bus = "bus1"
    /\ fault_type = "LG"
    /\ recloser_state = "CLOSED"
    /\ recloser_timer = 0
    /\ relay_trip = FALSE
    /\ relay_accumulator = 0
    /\ capacitor_bank_kvAr = 0
    /\ apfc_auto_mode = FALSE
    /\ tap_position = TapScale
    /\ auto_tap_mode = FALSE
    /\ bess_soc = 50 * SocScale
    /\ crashed = FALSE
    /\ evals = 0
    /\ timer_before = 0
    /\ sc_in = NoInput
    /\ sc_out = Returned(RZero, RZero, RZero)
    /\ ph_out = convert_seq_to_phase(RZero, RZero, RZero)
    /\ wls = WlsIdle
    /\ rl_in = RecloserInput(FALSE, "CLOSED", 0, FALSE)
    /\ rl_out = [state |-> "CLOSED", timer |-> 0, trip |-> FALSE]
    /\ inv_in = InverterInput(1000, 0, 0)
    /\ inv_out = smart_inverter_logic(1000, 0, 0)
    /\ grid_freq = NOMINAL_FREQ * FreqScale
    /\ mech_power = 5000 * PowScale
    /\ pe_in = 5000 * PowScale
    /\ fdi_attack = FALSE
    /\ hist_len = HistoryInitLen
    /\ solar_irr_history = solar_irr_init
    /\ bess_in = DispatchInput(50 * SocScale, 0, TRUE)
    /\ bess_out = DispatchRec(0, 50 * SocScale)


\* ------------------------------------------------------------------------
\* Recloser state machine
\* ------------------------------------------------------------------------
RecloserRec(st, tm, tr) ==
    [state |-> st, timer |-> tm, trip |-> tr]

\* Variant: the reclose is attempted one evaluation early (>= for >).
recloser_logic_early_reclose(fa, st, tm, tr) ==
    IF ~fa THEN RecloserRec(st, tm, tr)
    ELSE CASE st = "CLOSED"  -> RecloserRec("TRIPPED", 0, TRUE)
           [] st = "TRIPPED" -> RecloserRec("WAITING", tm, tr)
           [] st = "WAITING" ->
                IF tm + 1 >= WaitLimit
                THEN RecloserRec("RECLOSE", tm + 1, tr)
                ELSE RecloserRec("WAITING", tm + 1, tr)
           [] st = "RECLOSE" ->
                IF fa THEN RecloserRec("LOCKOUT", tm, TRUE)
                      ELSE RecloserRec("CLOSED", tm, FALSE)
           [] st = "LOCKOUT" -> RecloserRec("LOCKOUT", tm, TRUE)
           [] OTHER          -> RecloserRec(st, tm, tr)

\* Variant: the trip leaves the timer as it finds it.
recloser_logic_keeps_timer(fa, st, tm, tr) ==
    IF ~fa THEN RecloserRec(st, tm, tr)
    ELSE CASE st = "CLOSED"  -> RecloserRec("TRIPPED", tm, TRUE)
           [] st = "TRIPPED" -> RecloserRec("WAITING", tm, tr)
           [] st = "WAITING" ->
                IF tm + 1 > WaitLimit
                THEN RecloserRec("RECLOSE", tm + 1, tr)
                ELSE RecloserRec("WAITING", tm + 1, tr)
           [] st = "RECLOSE" ->
                IF fa THEN RecloserRec("LOCKOUT", tm, TRUE)
                      ELSE RecloserRec("CLOSED", tm, FALSE)
           [] st = "LOCKOUT" -> RecloserRec("LOCKOUT", tm, TRUE)
           [] OTHER          -> RecloserRec(st, tm, tr)

\* Variant: an evaluation in LOCKOUT closes the recloser again.
recloser_logic_lockout_expires(fa, st, tm, tr) ==
    IF ~fa THEN RecloserRec(st, tm, tr)
    ELSE CASE st = "CLOSED"  -> RecloserRec("TRIPPED", 0, TRUE)
           [] st = "TRIPPED" -> RecloserRec("WAITING", tm, tr)
           [] st = "WAITING" ->
                IF tm + 1 > WaitLimit
                THEN RecloserRec("RECLOSE", tm + 1, tr)
                ELSE RecloserRec("WAITING", tm + 1, tr)
           [] st = "RECLOSE" ->
                IF fa THEN RecloserRec("LOCKOUT", tm, TRUE)
                      ELSE RecloserRec("CLOSED", tm, FALSE)
           [] st = "LOCKOUT" -> RecloserRec("CLOSED", tm, FALSE)
           [] OTHER          -> RecloserRec(st, tm, tr)

\* Variant: the failed reclose clears the timer on its way to LOCKOUT.
recloser_logic_lockout_clears_timer(fa, st, tm, tr) ==
    IF ~fa THEN RecloserRec(st, tm, tr)
    ELSE CASE st = "CLOSED"  -> RecloserRec("TRIPPED", 0, TRUE)
           [] st = "TRIPPED" -> RecloserRec("WAITING", tm, tr)
           [] st = "WAITING" ->
                IF tm + 1 > WaitLimit
                THEN RecloserRec("RECLOSE", tm + 1, tr)
                ELSE RecloserRec("WAITING", tm + 1, tr)
           [] st = "RECLOSE" ->
                IF fa THEN RecloserRec("LOCKOUT", 0, TRUE)
                      ELSE RecloserRec("CLOSED", tm, FALSE)
           [] st = "LOCKOUT" -> RecloserRec("LOCKOUT", tm, TRUE)
           [] OTHER          -> RecloserRec(st, tm, tr)

recloser_logic(fa, st, tm, tr) ==
    IF ~fa THEN RecloserRec(st, tm, tr)
    ELSE CASE st = "CLOSED"  -> RecloserRec("TRIPPED", 0, TRUE)
           [] st = "TRIPPED" -> RecloserRec("WAITING", tm, tr)
           [] st = "WAITING" ->
                IF tm + 1 > WaitLimit
                THEN RecloserRec("RECLOSE", tm + 1, tr)
                ELSE RecloserRec("WAITING", tm + 1, tr)
           [] st = "RECLOSE" ->
                IF fa THEN RecloserRec("LOCKOUT", tm, TRUE)
                      ELSE RecloserRec("CLOSED", tm, FALSE)
           [] st = "LOCKOUT" -> RecloserRec("LOCKOUT", tm, TRUE)
           [] OTHER          -> RecloserRec(st, tm, tr)

\* One evaluation of recloser_logic on the session state; evals counts the
\* evaluations made since the fault was injected and timer_before keeps the
\* timer the evaluation found.
EvalRecloser ==
    LET r == recloser_logic(fault_active, recloser_state, recloser_timer, relay_trip)
    IN  /\ recloser_state' = r.state
        /\ recloser_timer' = r.timer
        /\ relay_trip' = r.trip
        /\ timer_before' = recloser_timer
        /\ evals' = IF fault_active /\ evals < MaxEvals THEN evals + 1 ELSE evals
        /\ UNCHANGED <<fault_active, fault_bus, fault_type>>

\* ------------------------------------------------------------------------
\* BESS dispatch
\* ------------------------------------------------------------------------
Clamp(lo, hi, x) ==
    IF x < lo THEN lo ELSE IF x > hi THEN hi ELSE x

\* Variant: the charging window closes one hour late.
bess_p_late_window(h, soc) ==
    IF 10 <= h /\ h <= 16
    THEN (IF soc < 95 * SocScale THEN -((8 * BESS_MAX_POWER) \div 10) ELSE 0)
    ELSE IF 18 <= h /\ h <= 22
         THEN (IF soc > 20 * SocScale THEN BESS_MAX_POWER ELSE 0)
         ELSE 0

\* p_bess (kW) for the hour h = current_hour % 24 and the stored SoC.
bess_p(h, soc) ==
    IF 10 <= h /\ h <= 15
    THEN (IF soc < 95 * SocScale THEN -((8 * BESS_MAX_POWER) \div 10) ELSE 0)
    ELSE IF 18 <= h /\ h <= 22
         THEN (IF soc > 20 * SocScale THEN BESS_MAX_POWER ELSE 0)
         ELSE 0

\* Variant: dispatch by the hour alone, the new SoC stored as computed.
bess_dispatch_logic_unlimited(soc, current_hour, run) ==
    LET h      == current_hour % 24
        p_bess == IF 10 <= h /\ h <= 15 THEN -((8 * BESS_MAX_POWER) \div 10)
                  ELSE IF 18 <= h /\ h <= 22 THEN BESS_MAX_POWER ELSE 0
    IN  IF run THEN soc - p_bess ELSE soc

\* New bess_soc after one call: energy_delta / BESS_CAPACITY_KWH * 100 percent
\* is -p_bess in units of 1/SocScale percent.
bess_dispatch_logic(soc, current_hour, run) ==
    LET p_bess == bess_p(current_hour % 24, soc)
    IN  IF run THEN Clamp(0, 100 * SocScale, soc - p_bess) ELSE soc

\* The calls made for the history window, k = from .. to - 1.
RECURSIVE bess_history(_, _, _, _)
bess_history(soc, from, to, run) ==
    IF from >= to THEN soc
    ELSE bess_history(bess_dispatch_logic(soc, from, run), from + 1, to, run)

\* ------------------------------------------------------------------------
\* Sidebar: operator commands
\* ------------------------------------------------------------------------
ToggleStream ==
    /\ run_simulation' = ~run_simulation
    /\ UNCHANGED <<idx, len_raw, len_fa, speed, protVars, relay_accumulator,
                   feederVars, bess_soc, crashed, solverVars, gridVars>>

SetSpeed(s) ==
    /\ s # speed
    /\ speed' = s
    /\ UNCHANGED <<idx, len_raw, len_fa, run_simulation, protVars,
                   relay_accumulator, feederVars, bess_soc, crashed, solverVars, gridVars>>

RESTART ==
    /\ idx' = 0
    /\ relay_trip' = FALSE
    /\ fault_active' = FALSE
    /\ recloser_state' = "CLOSED"
    /\ bess_soc' = 50 * SocScale
    /\ evals' = 0
    /\ grid_freq' = NOMINAL_FREQ * FreqScale
    /\ mech_power' = 5000 * PowScale
    /\ fdi_attack' = FALSE
    /\ hist_len' = HistoryInitLen
    /\ solar_irr_history' = solar_irr_init
    /\ UNCHANGED <<len_raw, len_fa, run_simulation, speed, fault_bus, fault_type,
                   recloser_timer, timer_before, relay_accumulator,
                   capacitor_bank_kvAr, apfc_auto_mode, tap_position, auto_tap_mode,
                   crashed, solverVars, pe_in>>

RESET_RECLOSER ==
    /\ recloser_state = "LOCKOUT"
    /\ relay_trip' = FALSE
    /\ fault_active' = FALSE
    /\ recloser_state' = "CLOSED"
    /\ evals' = 0
    /\ UNCHANGED <<idx, len_raw, len_fa, run_simulation, speed, fault_bus,
                   fault_type, recloser_timer, timer_before,
                   relay_accumulator, feederVars, bess_soc, crashed, solverVars, gridVars>>

\* Variant: FORCE CLEAR leaves relay_trip as it is.
FORCE_CLEAR_keeps_trip ==
    /\ recloser_state # "LOCKOUT"
    /\ fault_active
    /\ fault_active' = FALSE
    /\ recloser_state' = "CLOSED"
    /\ evals' = 0
    /\ UNCHANGED <<idx, len_raw, len_fa, run_simulation, speed, fault_bus,
                   fault_type, recloser_timer, relay_trip, timer_before,
                   relay_accumulator, feederVars, bess_soc, crashed, solverVars, gridVars>>

\* Variant: FORCE CLEAR clears the fault and the trip but leaves the
\* recloser where it is.
FORCE_CLEAR_keeps_state ==
    /\ recloser_state # "LOCKOUT"
    /\ fault_active
    /\ fault_active' = FALSE
    /\ relay_trip' = FALSE
    /\ evals' = 0
    /\ UNCHANGED <<idx, len_raw, len_fa, run_simulation, speed, fault_bus,
                   fault_type, recloser_state, recloser_timer, timer_before,
                   relay_accumulator, feederVars, bess_soc, crashed, solverVars, gridVars>>

FORCE_CLEAR ==
    /\ recloser_state # "LOCKOUT"
    /\ fault_active
    /\ fault_active' = FALSE
    /\ relay_trip' = FALSE
    /\ recloser_state' = "CLOSED"
    /\ evals' = 0
    /\ UNCHANGED <<idx, len_raw, len_fa, run_simulation, speed, fault_bus,
                   fault_type, recloser_timer, timer_before,
                   relay_accumulator, feederVars, bess_soc, crashed, solverVars, gridVars>>

\* Variant: EXECUTE FAULT is offered while a fault is active as well.
EXECUTE_FAULT_during_fault(f_bus, f_type, safety_lock) ==
    /\ recloser_state # "LOCKOUT"
    /\ safety_lock
    /\ fault_active' = TRUE
    /\ fault_bus' = f_bus
    /\ fault_type' = f_type
    /\ evals' = 0
    /\ UNCHANGED <<idx, len_raw, len_fa, run_simulation, speed, recloser_state,
                   recloser_timer, relay_trip, timer_before, relay_accumulator,
                   feederVars, bess_soc, crashed, solverVars, gridVars>>

\* The button is in the else branch of the LOCKOUT / fault_active chain and
\* is disabled unless the SAFETY OVERRIDE toggle is on.
EXECUTE_FAULT(f_bus, f_type, safety_lock) ==
    /\ recloser_state # "LOCKOUT"
    /\ ~fault_active
    /\ safety_lock
    /\ fault_active' = TRUE
    /\ fault_bus' = f_bus
    /\ fault_type' = f_type
    /\ evals' = 0
    /\ UNCHANGED <<idx, len_raw, len_fa, run_simulation, speed, recloser_state,
                   recloser_timer, relay_trip, timer_before, relay_accumulator,
                   feederVars, bess_soc, crashed, solverVars, gridVars>>


\* ------------------------------------------------------------------------
\* Page fragments (one run = one tick of the page)
\* ------------------------------------------------------------------------
Advance(len) ==
    IF run_simulation THEN (idx + 1) % len ELSE idx

\* A fragment run that stopped on an IndexError right after the index update.
Crash(i) ==
    /\ idx' = i
    /\ crashed' = TRUE
    /\ UNCHANGED <<len_raw, len_fa, run_simulation, speed, protVars,
                   relay_accumulator, feederVars, bess_soc, solverVars, gridVars>>

\* One run of render_home; p_grid_net is the net grid power of the tick
\* (row load + HVAC - PV - BESS) in units of 1/PowScale kW.
render_home(p_grid_net) ==
    LET i == Advance(len_raw)
        g == update_grid_physics(grid_freq, mech_power, p_grid_net)
    IN  IF i >= len_raw
        THEN Crash(i)
        ELSE /\ idx' = i
             /\ crashed' = FALSE
             /\ bess_soc' = bess_history(bess_dispatch_logic(bess_soc, i, run_simulation),
                                         Max(0, i - HistWindow), i, run_simulation)
             /\ EvalRecloser
             /\ grid_freq' = g.grid_freq
             /\ mech_power' = g.mech_power
             /\ pe_in' = p_grid_net
             /\ UNCHANGED <<len_raw, len_fa, run_simulation, speed,
                            relay_accumulator, feederVars, solverVars>>

\* get_node_sim_data reads the feeder series at the shared index when a node
\* is selected and the series has a column for it.
get_node_sim_data_raises(selected, current_idx) ==
    selected = "column" /\ current_idx >= len_fa

render_topology(selected) ==
    LET i == Advance(len_raw)
    IN  IF get_node_sim_data_raises(selected, i)
        THEN Crash(i)
        ELSE /\ idx' = i
             /\ crashed' = FALSE
             /\ UNCHANGED <<len_raw, len_fa, run_simulation, speed, protVars,
                            relay_accumulator, feederVars, bess_soc, solverVars, gridVars>>

render_ai_dashboard ==
    /\ idx' = Advance(len_raw)
    /\ crashed' = FALSE
    /\ UNCHANGED <<len_raw, len_fa, run_simulation, speed, protVars,
                   relay_accumulator, feederVars, bess_soc, solverVars, gridVars>>

\* --- pieces of render_feeder ---
\* Variant: the tap steps without the 0.90 / 1.10 limits.
auto_tap_unclamped(mode, trip, v_milli, tap) ==
    IF mode /\ ~trip
    THEN IF v_milli < 960 THEN tap + 1
         ELSE IF v_milli > 1040 THEN tap - 1
         ELSE tap
    ELSE tap

auto_tap(mode, trip, v_milli, tap) ==
    IF mode /\ ~trip
    THEN IF v_milli < 960 THEN Min((110 * TapScale) \div 100, tap + 1)
         ELSE IF v_milli > 1040 THEN Max((90 * TapScale) \div 100, tap - 1)
         ELSE tap
    ELSE tap

\* (speed / trip_time) * 100 in 1/AccScale percent; speed is in half units.
step_add(spd, trip_ms) ==
    (spd * 100 * AccScale * 1000) \div (2 * trip_ms)

relay_integrate(acc, ftype, spd) ==
    LET s == compute_symmetrical_components_physics(ftype, <<1, 1>>, <<1, 5>>,
                 <<1, 5>>, <<3, 5>>, FAULT_LIBRARY[ftype])
        trip_time == calculate_iec_trip_time(max_phase_current(s))
    IN  IF trip_time # 0 THEN acc + step_add(spd, trip_time) ELSE acc

relay_decay(acc) ==
    Max(0, acc - 5 * AccScale)

\* pf_final < 0.95 and pf_final > 0.99 for P = display_p - smart_p (kW) and
\* Q = display_q - capacitor_bank_kvAr (kvar), compared on squares
\* (0.95^2 = 361/400, 0.99^2 = 9801/10000); pf_final is 1.0 when P = Q = 0.
pf_low(P, Q) ==
    (P * P + Q * Q > 0)
    /\ (P < 0 \/ 400 * P * P < 361 * (P * P + Q * Q))

pf_high(P, Q) ==
    (P * P + Q * Q = 0)
    \/ (P > 0 /\ 10000 * P * P > 9801 * (P * P + Q * Q))

\* Variant: the bank steps without the final clamp to [0, 200].
apfc_step_unclamped(mode, local_fault, trip, P, Q, cap) ==
    IF mode /\ ~local_fault /\ ~trip
    THEN IF pf_low(P, Q) THEN cap + 25
         ELSE IF pf_high(P, Q) /\ cap > 0 THEN cap - 25
         ELSE cap
    ELSE cap

apfc_step(mode, local_fault, trip, P, Q, cap) ==
    LET stepped == IF mode /\ ~local_fault /\ ~trip
                   THEN IF pf_low(P, Q) THEN cap + 25
                        ELSE IF pf_high(P, Q) /\ cap > 0 THEN cap - 25
                        ELSE cap
                   ELSE cap
    IN  Clamp(0, 200, stepped)

NoTouch ==
    -1

TapSlider ==
    {(90 * TapScale) \div 100 + 2 * k : k \in 0 .. 20}

CapOptions ==
    {25 * k : k \in 0 .. 8}

\* One run of render_feeder.  Inputs: the bus viewed, whether the feeder
\* series has a column for it, the sample raw_p (kW, a multiple of 5 so that
\* display_q = 0.4 * raw_p is whole), the inverter output smart_p,
\* the bus voltage v_milli computed from them, and the values of the four
\* widgets (NoTouch: the widget returns the session value), the irradiance
\* (percent of one sun) returned by calculate_pv_physics and the value of the
\* FDI toggle.  Every history buffer takes one sample; the irradiance buffer
\* is kept sample by sample, the others by their length.
render_feeder(view_bus, has_col, v_milli, raw_p, smart_p, auto_tap_w, tap_w, auto_cap_w, steps_w, irradiance, fdi_w) ==
    LET i           == Advance(len_fa)
        tap1        == auto_tap(auto_tap_mode, relay_trip, v_milli, tap_position)
        local       == fault_active /\ fault_bus = view_bus
        local_fault == local /\ relay_trip
        display_p   == IF local_fault THEN 0 ELSE raw_p
        display_q   == IF local_fault THEN 0 ELSE (4 * raw_p) \div 10
        cap1        == apfc_step(apfc_auto_mode, local_fault, relay_trip,
                                 display_p - smart_p,
                                 display_q - capacitor_bank_kvAr,
                                 capacitor_bank_kvAr)
    IN  IF has_col /\ i >= len_fa
        THEN Crash(i)
        ELSE /\ idx' = i
             /\ crashed' = FALSE
             /\ relay_accumulator' =
                    IF local
                    THEN IF relay_trip THEN relay_accumulator
                         ELSE relay_integrate(relay_accumulator, fault_type, speed)
                    ELSE relay_decay(relay_accumulator)
             /\ auto_tap_mode' = auto_tap_w
             /\ tap_position' = IF auto_tap_w \/ tap_w = NoTouch THEN tap1 ELSE tap_w
             /\ apfc_auto_mode' = auto_cap_w
             /\ capacitor_bank_kvAr' =
                    IF auto_cap_w \/ steps_w = NoTouch THEN cap1 ELSE steps_w
             /\ hist_len' = [b \in DOMAIN hist_len |->
                                 push_len(hist_len[b], HistoryCap[b])]
             /\ solar_irr_history' =
                    push(solar_irr_history, irradiance, HistoryCap["solar_irr_history"])
             /\ fdi_attack' = fdi_w
             /\ UNCHANGED <<len_raw, len_fa, run_simulation, speed, protVars,
                            bess_soc, solverVars, gridVars>>


\* ------------------------------------------------------------------------
\* Specification of the protection chain: faults, recloser, relay, all pages
\* ------------------------------------------------------------------------
Init ==
    /\ SessionDefaults
    /\ len_raw = DataLen
    /\ len_fa = DataLen

FeederTick ==
    /\ relay_accumulator <= MaxAcc * AccScale
    /\ \E b \in bus_list :
          render_feeder(b, TRUE, 1000, 50, 0, auto_tap_mode, NoTouch,
                        apfc_auto_mode, NoTouch, 0, fdi_attack)

Next ==
    \/ ToggleStream
    \/ RESTART
    \/ RESET_RECLOSER
    \/ FORCE_CLEAR
    \/ \E b \in bus_list, t \in FaultTypes, lock \in BOOLEAN : EXECUTE_FAULT(b, t, lock)
    \/ render_home(mech_power)
    \/ \E sel \in {"All", "column", "fallback"} : render_topology(sel)
    \/ render_ai_dashboard
    \/ FeederTick

Spec ==
    Init /\ [][Next]_vars


\* ------------------------------------------------------------------------
\* Specification of the shared tick index over series of any lengths
\* ------------------------------------------------------------------------
InitIdx ==
    /\ SessionDefaults
    /\ len_raw \in 1 .. MaxLen
    /\ len_fa \in 1 .. MaxLen

FeederTickIdx ==
    \E b \in bus_list, has_col \in BOOLEAN :
       render_feeder(b, has_col, 1000, 50, 0, auto_tap_mode, NoTouch,
                     apfc_auto_mode, NoTouch, 0, fdi_attack)

NextIdx ==
    \/ ToggleStream
    \/ \E s \in Speeds : SetSpeed(s)
    \/ RESTART
    \/ render_home(mech_power)
    \/ \E sel \in {"All", "column", "fallback"} : render_topology(sel)
    \/ render_ai_dashboard
    \/ FeederTickIdx

SpecIdx ==
    InitIdx /\ [][NextIdx]_vars

\* ------------------------------------------------------------------------
\* Specification of the BESS over a day of samples
\* ------------------------------------------------------------------------
InitBess ==
    /\ SessionDefaults
    /\ len_raw = BessLen
    /\ len_fa = BessLen

NextBess ==
    \/ ToggleStream
    \/ RESTART
    \/ render_home(mech_power)
    \/ render_ai_dashboard

SpecBess ==
    InitBess /\ [][NextBess]_vars

\* ------------------------------------------------------------------------
\* Specification of the tap changer and the capacitor bank
\* ------------------------------------------------------------------------
InitFeeder ==
    /\ SessionDefaults
    /\ len_raw = 1
    /\ len_fa = 1

Voltages ==
    {950, 1000, 1050}

Loads ==
    {50, 250}

PvOutputs(b) ==
    IF b \in DOMAIN SOLAR_BUS_CONFIG THEN {0, 2 * SOLAR_BUS_CONFIG[b]} ELSE {0}

\* A timer tick or a rerun that touches none of the four widgets.
FeederRun ==
    \E b \in bus_list, v \in Voltages, p \in Loads :
       \E g \in PvOutputs(b) :
          render_feeder(b, TRUE, v, p, g, auto_tap_mode, NoTouch,
                        apfc_auto_mode, NoTouch, 0, fdi_attack)

ToggleAutoTap ==
    \E b \in bus_list, v \in Voltages, p \in Loads :
       render_feeder(b, TRUE, v, p, 0, ~auto_tap_mode, NoTouch,
                     apfc_auto_mode, NoTouch, 0, fdi_attack)

SetTap ==
    /\ ~auto_tap_mode
    /\ \E b \in bus_list, v \in Voltages, p \in Loads, t \in TapSlider :
          render_feeder(b, TRUE, v, p, 0, FALSE, t, apfc_auto_mode, NoTouch, 0, fdi_attack)

ToggleAutoCap ==
    \E b \in bus_list, v \in Voltages, p \in Loads :
       render_feeder(b, TRUE, v, p, 0, auto_tap_mode, NoTouch,
                     ~apfc_auto_mode, NoTouch, 0, fdi_attack)

SetCapSteps ==
    /\ ~apfc_auto_mode
    /\ \E b \in bus_list, v \in Voltages, p \in Loads, c \in CapOptions :
          render_feeder(b, TRUE, v, p, 0, auto_tap_mode, NoTouch, FALSE, c, 0, fdi_attack)

NextFeeder ==
    \/ FeederRun
    \/ ToggleAutoTap
    \/ SetTap
    \/ ToggleAutoCap
    \/ SetCapSteps

SpecFeeder ==
    InitFeeder /\ [][NextFeeder]_vars

\* ------------------------------------------------------------------------
\* Specification of the fault solver as a function of its arguments
\* ------------------------------------------------------------------------
Impedances ==
    {RZero, <<1, 5>>, <<3, 5>>}

FaultImpedances ==
    {RZero, <<1, 100>>}

PrefaultVoltages ==
    {<<1, 1>>, <<21, 20>>}

InitFault ==
    /\ SessionDefaults
    /\ len_raw = 1
    /\ len_fa = 1

\* The solver call of the fault block followed by the conversion of its
\* currents to phase currents (of the zero currents when the solver raised).
SolveFault ==
    \E ft \in FaultTypes, V \in PrefaultVoltages, Z1 \in Impedances,
       Z2 \in Impedances, Z0 \in Impedances, Zf \in FaultImpedances :
       LET out == compute_symmetrical_components_physics(ft, V, Z1, Z2, Z0, Zf)
       IN  /\ UNCHANGED <<wls, inv_in, inv_out, rl_in, rl_out, dispatchVars>>
           /\ sc_in' = SolverInput(ft, V, Z1, Z2, Z0, Zf)
           /\ sc_out' = out
           /\ ph_out' = convert_seq_to_phase(out.I0, out.I1, out.I2)
       /\ UNCHANGED <<idx, len_raw, len_fa, run_simulation, speed, protVars,
                      relay_accumulator, feederVars, bess_soc, crashed, gridVars>>

NextFault ==
    SolveFault

SpecFault ==
    InitFault /\ [][NextFault]_vars

\* ------------------------------------------------------------------------
\* Specification of the state estimator as a function of its arguments
\* ------------------------------------------------------------------------
InitWls ==
    /\ SessionDefaults
    /\ len_raw = 1
    /\ len_fa = 1

\* measured_v_pu as given by the caller (pu), P in kW and Q in kvar.
MeasuredV ==
    {<<19, 20>>, <<1, 1>>}

MeasuredP ==
    {RZero, <<50, 1>>}

MeasuredQ ==
    {RZero, <<20, 1>>}

\* tap_position values handed over as V_source.
SourceVoltages ==
    {<<1, 1>>, <<21, 20>>}

\* dist_map values, floored at 1e-6 by run_wls_state_estimation.
Distances ==
    {<<1, 1>>, <<2, 1>>}

LINE_IMPEDANCE_PER_UNIT_DIST ==
    [real |-> <<1, 200>>, imag |-> <<1, 500>>]

\* The floor put under dist (1e-6).
DistFloor ==
    <<1, 1000000>>

\* Variant: the residual is taken from the measurement as given, without the
\* injected bias.
run_wls_state_estimation_given_residual(measured_v_pu, measured_p_kw, measured_q_kvar, dist, fdi, tap) ==
    LET d == IF RLess(dist, DistFloor) THEN DistFloor ELSE dist
        v == IF fdi THEN RAdd(measured_v_pu, <<3, 20>>) ELSE measured_v_pu
        z == <<v, RMul(measured_p_kw, <<1, 1000>>), RMul(measured_q_kvar, <<1, 1000>>)>>
    IN  [solve_entry(z, tap, RMul(LINE_IMPEDANCE_PER_UNIT_DIST.real, d),
                     RMul(LINE_IMPEDANCE_PER_UNIT_DIST.imag, d))
            EXCEPT !.given = <<measured_v_pu, measured_p_kw, measured_q_kvar>>,
                   !.fdi = fdi, !.v_ref = measured_v_pu]

\* run_wls_state_estimation up to the entry of solve: the bias of 0.15 pu on
\* the voltage measurement under fdi_attack, z in pu / MW / Mvar, and the
\* value the residual will be taken from.
run_wls_state_estimation(measured_v_pu, measured_p_kw, measured_q_kvar, dist, fdi, tap) ==
    LET d == IF RLess(dist, DistFloor) THEN DistFloor ELSE dist
        v == IF fdi THEN RAdd(measured_v_pu, <<3, 20>>) ELSE measured_v_pu
        z == <<v, RMul(measured_p_kw, <<1, 1000>>), RMul(measured_q_kvar, <<1, 1000>>)>>
    IN  [solve_entry(z, tap, RMul(LINE_IMPEDANCE_PER_UNIT_DIST.real, d),
                     RMul(LINE_IMPEDANCE_PER_UNIT_DIST.imag, d))
            EXCEPT !.given = <<measured_v_pu, measured_p_kw, measured_q_kvar>>,
                   !.fdi = fdi, !.v_ref = v]

otherVars ==
    <<idx, len_raw, len_fa, run_simulation, speed, protVars,
      relay_accumulator, feederVars, bess_soc, crashed, gridVars>>

SolveCall ==
    /\ wls.pc # "loop"
    /\ \E v \in MeasuredV, p \in MeasuredP, q \in MeasuredQ,
          vs \in SourceVoltages, dist \in Distances :
          wls' = run_wls_state_estimation(v, p, q, dist, fdi_attack, vs)
    /\ UNCHANGED <<otherVars, dispatchVars, sc_in, sc_out, ph_out, inv_in, inv_out, rl_in, rl_out>>

SolveIterate ==
    /\ wls.pc = "loop"
    /\ \E conv \in BOOLEAN, sing \in BOOLEAN :
          wls' = solve_iteration(wls, conv, sing)
    /\ UNCHANGED <<otherVars, dispatchVars, sc_in, sc_out, ph_out, inv_in, inv_out, rl_in, rl_out>>

\* The operator flips the FDI toggle on the feeder page (between calls).
ToggleFdi ==
    /\ wls.pc # "loop"
    /\ \E b \in bus_list :
          render_feeder(b, TRUE, 1000, 50, 0, auto_tap_mode, NoTouch,
                        apfc_auto_mode, NoTouch, 0, ~fdi_attack)

NextWls ==
    \/ SolveCall
    \/ SolveIterate
    \/ ToggleFdi

SpecWls ==
    InitWls /\ [][NextWls]_vars

\* ------------------------------------------------------------------------
\* Specification of the grid frequency under load steps
\* ------------------------------------------------------------------------
MaxDrift ==
    2

InitGrid ==
    /\ SessionDefaults
    /\ len_raw = 1
    /\ len_fa = 1

\* Load steps of 1000 kW up and down.
LoadSteps ==
    {-1000 * PowScale, 1000 * PowScale}

\* A tick whose net grid power equals the mechanical power of the session.
BalancedTick ==
    render_home(mech_power)

\* A tick that meets a load step while the grid is at nominal frequency and
\* the mechanical power is within MaxDrift kW of its default.
LoadStepTick ==
    /\ grid_freq = NOMINAL_FREQ * FreqScale
    /\ Abs(mech_power - 5000 * PowScale) <= MaxDrift * PowScale
    /\ \E d \in LoadSteps : render_home(mech_power + d)

NextGrid ==
    \/ BalancedTick
    \/ LoadStepTick

SpecGrid ==
    InitGrid /\ [][NextGrid]_vars

\* ------------------------------------------------------------------------
\* Specification of the smart inverter as a function of its arguments
\* ------------------------------------------------------------------------
InitInverter ==
    /\ SessionDefaults
    /\ len_raw = 1
    /\ len_fa = 1

\* Bus voltages 0.90 .. 1.20 pu in steps of 0.005 pu.
InverterVoltages ==
    {900 + 5 * k : k \in 0 .. 60}

\* PV output available (kW) and inverter ratings of SOLAR_BUS_CONFIG (kW).
AvailablePower ==
    {0, 40, 150}

InverterRatings ==
    {100, 150}

ApplyInverter ==
    /\ \E v \in InverterVoltages, p \in AvailablePower, c \in InverterRatings :
          /\ inv_in' = InverterInput(v, p, c)
          /\ inv_out' = smart_inverter_logic(v, p, c)
    /\ UNCHANGED <<otherVars, dispatchVars, sc_in, sc_out, ph_out, wls, rl_in, rl_out>>

NextInverter ==
    ApplyInverter

SpecInverter ==
    InitInverter /\ [][NextInverter]_vars

\* ------------------------------------------------------------------------
\* Specification of recloser_logic as a function of the session fields
\* ------------------------------------------------------------------------
InitRecloser ==
    /\ SessionDefaults
    /\ len_raw = 1
    /\ len_fa = 1

RecloserTimers ==
    0 .. WaitLimit + 1

\* One call of recloser_logic on given values of fault_active,
\* recloser_state, recloser_timer and relay_trip.
ApplyRecloser ==
    /\ \E fa \in BOOLEAN, st \in RecloserStates, tm \in RecloserTimers, tr \in BOOLEAN :
          /\ rl_in' = RecloserInput(fa, st, tm, tr)
          /\ rl_out' = recloser_logic(fa, st, tm, tr)
    /\ UNCHANGED <<otherVars, dispatchVars, sc_in, sc_out, ph_out, wls, inv_in, inv_out>>

NextRecloser ==
    ApplyRecloser

SpecRecloser ==
    InitRecloser /\ [][NextRecloser]_vars


\* ========================================================================
\* Properties
\* ========================================================================
OpenStates ==
    {"TRIPPED", "WAITING", "RECLOSE", "LOCKOUT"}

\* C1: from CLOSED, with the fault held and no operator command, the n-th
\* evaluation of recloser_logic leaves the recloser in TRIPPED (n = 1, timer
\* 0), WAITING (n = 2 .. 7, the six evaluations made in WAITING count the
\* timer 1 .. 6), RECLOSE (n = 8) and LOCKOUT (n >= 9, so within 10).
C1_RecloserSequence ==
    fault_active =>
        /\ (evals = 0 => recloser_state = "CLOSED")
        /\ (evals = 1 => recloser_state = "TRIPPED" /\ recloser_timer = 0)
        /\ (evals \in 2 .. 7 => recloser_state = "WAITING" /\ recloser_timer = evals - 2)
        /\ (evals = 8 => recloser_state = "RECLOSE" /\ recloser_timer = 6)
        /\ (evals >= 9 => recloser_state = "LOCKOUT")
        /\ (evals >= 10 => recloser_state = "LOCKOUT" /\ relay_trip)

C1_LockoutReached ==
    fault_active /\ evals = 9 /\ recloser_state = "LOCKOUT" /\ timer_before = 6

\* C2: relay_trip is true only in TRIPPED, WAITING, RECLOSE or LOCKOUT and is
\* false whenever the recloser is CLOSED.
C2_TripOnlyWhenOpen ==
    /\ (relay_trip => recloser_state \in OpenStates)
    /\ (recloser_state = "CLOSED" => ~relay_trip)

C2_ClosedAfterClear ==
    recloser_state = "CLOSED" /\ ~relay_trip /\ ~fault_active /\ recloser_timer = 6

\* C3: every step that takes the recloser into TRIPPED sets recloser_timer to
\* 0 and relay_trip to true, whatever the timer held before.
C3_TimerResetOnTrip ==
    [][(recloser_state # "TRIPPED" /\ recloser_state' = "TRIPPED")
          => (recloser_timer' = 0 /\ relay_trip')]_vars

C3_TrippedWithStaleTimer ==
    recloser_state = "TRIPPED" /\ timer_before = 6 /\ recloser_timer = 0 /\ relay_trip

\* C4: bess_soc stays within [0, 100] percent.
C4_SocInRange ==
    0 <= bess_soc /\ bess_soc <= 100 * SocScale

C4_SocPastChargeLimit ==
    bess_soc > 95 * SocScale /\ idx \in 10 .. 15 /\ run_simulation

\* C5: tap_position stays within [0.90, 1.10] pu.
C5_TapInRange ==
    (90 * TapScale) \div 100 <= tap_position /\ tap_position <= (110 * TapScale) \div 100

C5_AutoTapAtLimit ==
    auto_tap_mode /\ tap_position = (110 * TapScale) \div 100

\* C6: at the end of every feeder tick and after every manual setting the
\* capacitor bank is a multiple of 25 kvar within [0, 200].
C6_CapOnSteps ==
    /\ capacitor_bank_kvAr % 25 = 0
    /\ 0 <= capacitor_bank_kvAr
    /\ capacitor_bank_kvAr <= 200

C6_AutoCapAtLimit ==
    apfc_auto_mode /\ capacitor_bank_kvAr = 200

\* C7: relay_accumulator stays within [0, 100] percent.
C7_AccumulatorInRange ==
    0 <= relay_accumulator /\ relay_accumulator <= 100 * AccScale

\* C8: the fault solver returns a triple of currents for every fault type and
\* every choice of V, Z1, Z2, Z0, Zf; it never raises.
C8_SolverNeverRaises ==
    ~sc_out.raised

\* C9: no page ever reads a load series at an index beyond its length.
C9_ReadInRange ==
    ~crashed

DefaultInput(ft) ==
    SolverInput(ft, <<1, 1>>, <<1, 5>>, <<1, 5>>, <<3, 5>>, RZero)

\* C10: with V = 1.0, Zf = 0, Z1 = Z2 = 0.2 and Z0 = 0.6 the solver returns
\* I1 = I2 = I0 = 1.0 for the L-G fault and I1 = 5.0, I2 = I0 = 0 for L-L-L.
C10_DefaultFaultCurrents ==
    /\ (sc_in = DefaultInput("LG")
           => sc_out = Returned(<<1, 1>>, <<1, 1>>, <<1, 1>>))
    /\ (sc_in = DefaultInput("LLL")
           => sc_out = Returned(<<5, 1>>, RZero, RZero))

C10_DefaultLLLSolved ==
    sc_in = DefaultInput("LLL") /\ ~sc_out.raised

\* C11: for each of the four fault types, with a non-negative pre-fault
\* voltage and non-negative impedances, the sequence currents the solver
\* returns are non-negative and so are the phase-current magnitudes Ia, Ib,
\* Ic (Ib and Ic through their squares).
C11_CurrentsNonNegative ==
    (sc_in.ft \in FaultTypes /\ ~sc_out.raised) =>
        /\ RLeq(RZero, sc_out.I1)
        /\ RLeq(RZero, sc_out.I2)
        /\ RLeq(RZero, sc_out.I0)
        /\ ph_out = convert_seq_to_phase(sc_out.I0, sc_out.I1, sc_out.I2)
        /\ RLeq(RZero, ph_out.Ia)
        /\ RLeq(RZero, ph_out.Ib2)
        /\ RLeq(RZero, ph_out.Ic2)

C11_UnbalancedLLG ==
    /\ sc_in = DefaultInput("LLG")
    /\ RLess(RZero, sc_out.I2)
    /\ RLess(RZero, sc_out.I0)
    /\ RLess(RZero, ph_out.Ib2)

\* C12: StateEstimator.solve never raises, makes at most max_iter = 10 passes
\* of the Gauss-Newton loop (a call still in the loop has passes left, and
\* every pass either returns or counts one up), and returns an estimate and
\* a cost by one of three exits: tolerance met, singular gain matrix (the
\* last x kept), iteration limit exhausted.
C12_SolveReturns ==
    /\ wls.pc # "raised"
    /\ wls.i <= max_iter
    /\ (wls.pc = "loop" => wls.i < max_iter)
    /\ (wls.pc = "returned" =>
           /\ wls.exit \in {"converged", "singular", "exhausted"}
           /\ (wls.exit = "exhausted" <=> wls.i = max_iter)
           /\ (wls.exit = "singular" => wls.r_at_x))

C12_SingularAtLastPass ==
    wls.pc = "returned" /\ wls.exit = "singular" /\ wls.i = max_iter - 1

NoLoadInput ==
    /\ wls.z = <<(<<1, 1>>), RZero, RZero>>
    /\ wls.V_source = <<1, 1>>

\* C13: for the measurement z = [1.0, 0, 0] and source voltage 1.0 the call
\* returns in its first pass by the convergence test, with no Gauss-Newton
\* step taken: the estimate is the flat start V = 1.0 and the cost is J = 0.
C13_NoLoadConverges ==
    (wls.pc = "returned" /\ NoLoadInput) =>
        /\ wls.exit = "converged"
        /\ wls.i = 0
        /\ wls.flat
        /\ wls.est_v = Known(<<1, 1>>)
        /\ wls.J = Known(RZero)

C13_NoLoadReturned ==
    wls.pc = "returned" /\ NoLoadInput /\ wls.R = <<1, 100>>

\* C15: on every tick whose electrical power equals the mechanical power, a
\* frequency of 50 Hz stays at 50 Hz with the mechanical power unchanged,
\* and a frequency deviation becomes strictly smaller in magnitude.
C15_FrequencyRestored ==
    [][(pe_in' = mech_power) =>
          /\ (grid_freq = NOMINAL_FREQ * FreqScale =>
                 /\ grid_freq' = NOMINAL_FREQ * FreqScale
                 /\ mech_power' = mech_power)
          /\ (grid_freq # NOMINAL_FREQ * FreqScale =>
                 Abs(grid_freq' - NOMINAL_FREQ * FreqScale)
                     < Abs(grid_freq - NOMINAL_FREQ * FreqScale))]_vars

C15_BackAtNominal ==
    /\ grid_freq = NOMINAL_FREQ * FreqScale
    /\ mech_power # 5000 * PowScale
    /\ pe_in # mech_power

\* C16: the inverter returns the available power unchanged for v_pu <= 1.05
\* and the available power times max(0, 1 - (v_pu - 1.05) * 10) above it:
\* half of it at v_pu = 1.10, nothing from v_pu = 1.15 up, and never more
\* than the available power.
C16_VoltWatt ==
    /\ (inv_in.v <= 1050 => inv_out.p_out = 1000 * inv_in.p)
    /\ ((1050 < inv_in.v /\ inv_in.v < 1150)
           => inv_out.p_out = inv_in.p * (11500 - 10 * inv_in.v))
    /\ (inv_in.v = 1100 => 2 * inv_out.p_out = 1000 * inv_in.p)
    /\ (inv_in.v >= 1150 => inv_out.p_out = 0)
    /\ inv_out.p_out <= 1000 * inv_in.p

C16_HalfCurtailed ==
    inv_in.v = 1100 /\ inv_in.p = 40 /\ inv_out.p_out = 20000

\* C17: an evaluation of recloser_logic in RECLOSE ends in LOCKOUT with
\* relay_trip true when the fault is still active, and otherwise in CLOSED
\* with relay_trip false (the successful reclose).
C17_RecloseOutcome ==
    rl_in.st = "RECLOSE" =>
        IF rl_in.fa
        THEN rl_out.state = "LOCKOUT" /\ rl_out.trip
        ELSE rl_out.state = "CLOSED" /\ ~rl_out.trip

\* C18: the step in which relay_accumulator reaches 100 percent signals a
\* trip: after it relay_trip is true and the recloser is not CLOSED.
C18_TripAtThreshold ==
    [][(relay_accumulator < 100 * AccScale /\ relay_accumulator' >= 100 * AccScale)
          => (relay_trip' /\ recloser_state' # "CLOSED")]_vars

\* C19: every advance of the shared index comes with one evaluation of
\* recloser_logic; stated where an evaluation is observable, during a fault
\* that stays active, by the count of evaluations going up by one.
C19_EvaluatedOncePerTick ==
    [][(idx' # idx /\ fault_active /\ fault_active' /\ evals < MaxEvals)
          => evals' = evals + 1]_vars

\* C20: a recloser that is CLOSED with no fault active is CLOSED after every
\* step; a recloser in LOCKOUT stays in LOCKOUT with relay_trip true on
\* every step that leaves the fault active (every tick), and a step that
\* leaves LOCKOUT is an operator reset: it clears the fault and relay_trip
\* and closes the recloser.
C20_ClosedAndLockoutStable ==
    [][/\ ((recloser_state = "CLOSED" /\ ~fault_active) => recloser_state' = "CLOSED")
       /\ ((recloser_state = "LOCKOUT" /\ fault_active')
              => (recloser_state' = "LOCKOUT" /\ relay_trip'))
       /\ ((recloser_state = "LOCKOUT" /\ recloser_state' # "LOCKOUT")
              => (recloser_state' = "CLOSED" /\ ~fault_active' /\ ~relay_trip'))]_vars

C20_HeldInLockout ==
    recloser_state = "LOCKOUT" /\ relay_trip /\ fault_active /\ evals = MaxEvals

\* ------------------------------------------------------------------------
\* Specification of the history buffers: feeder ticks with varying irradiance
\* ------------------------------------------------------------------------
\* Largest number of non-zero samples held by the irradiance buffer at once.
MaxSunny ==
    1

\* Irradiance in percent of one sun: night, cloud-shaded, clear.
Irradiances ==
    {0, 30, 100}

InitHist ==
    /\ SessionDefaults
    /\ len_raw = DataLen
    /\ len_fa = DataLen

Sunny(hist) ==
    Cardinality({i \in 1 .. Len(hist) : hist[i] # 0})

\* A feeder tick; a bus without PV reports irradiance 0.
HistTick ==
    \E b \in bus_list, irr \in Irradiances :
       /\ b \notin DOMAIN SOLAR_BUS_CONFIG => irr = 0
       /\ irr # 0 => Sunny(solar_irr_history) < MaxSunny
       /\ render_feeder(b, TRUE, 1000, 50, 0, auto_tap_mode, NoTouch,
                        apfc_auto_mode, NoTouch, irr, fdi_attack)

NextHist ==
    \/ HistTick
    \/ RESTART

SpecHist ==
    InitHist /\ [][NextHist]_vars

\* C21 (as stated): every history buffer, history_cap included, holds 50
\* samples.
C21_AllFifty ==
    \A b \in DOMAIN hist_len : hist_len[b] = 50

\* C21: every history buffer is a fixed-length FIFO: its length always equals
\* its initial length (50 samples, 24 for history_cap), and a tick that moves
\* the index appends one sample at the end and evicts the oldest one, keeping
\* the others in order (RESTART restores the initial buffer).
C21_FixedLengthFifo ==
    [][/\ \A b \in DOMAIN hist_len :
             /\ hist_len[b] = (IF b = "history_cap" THEN 24 ELSE 50)
             /\ hist_len'[b] = hist_len[b]
       /\ Len(solar_irr_history) = 50
       /\ Len(solar_irr_history') = 50
       /\ idx' # idx =>
             \/ solar_irr_history' = solar_irr_init
             \/ \E x \in Irradiances :
                   solar_irr_history' = Append(Tail(solar_irr_history), x)]_vars

\* A sample taken earlier has moved towards the front and a newer one sits at
\* the end.
C21_SampleShifted ==
    /\ solar_irr_history[49] = 100
    /\ solar_irr_history[50] = 0
    /\ hist_len["history_cap"] = 24

\* ------------------------------------------------------------------------
\* Specification of bess_dispatch_logic as a function of hour and SoC
\* ------------------------------------------------------------------------
InitDispatch ==
    /\ SessionDefaults
    /\ len_raw = 1
    /\ len_fa = 1

\* Two days of hours, so that current_hour % 24 is exercised.
DispatchHours ==
    0 .. 47

\* SoC values (1/SocScale percent) at and next to the limits 20 and 95.
DispatchSoc ==
    {0, 20 * SocScale - 1, 20 * SocScale, 20 * SocScale + 1, 50 * SocScale,
     95 * SocScale - 1, 95 * SocScale, 95 * SocScale + 1, 100 * SocScale}

\* One call of bess_dispatch_logic with the session holding the given SoC.
ApplyDispatch ==
    /\ \E soc \in DispatchSoc, hour \in DispatchHours, run \in BOOLEAN :
          /\ bess_in' = DispatchInput(soc, hour, run)
          /\ bess_out' = DispatchRec(bess_p(hour % 24, soc),
                                     bess_dispatch_logic(soc, hour, run))
    /\ UNCHANGED <<otherVars, sc_in, sc_out, ph_out, wls, inv_in, inv_out, rl_in, rl_out>>

NextDispatch ==
    ApplyDispatch

SpecDispatch ==
    InitDispatch /\ [][NextDispatch]_vars

C23_VoltVar ==
    LET v   == inv_in.v
        cap == inv_in.cap
        q   == inv_out.q_out
    IN  /\ v > 1020 => /\ q = Max(-(cap * (v - 1020) * 5), -(440 * cap))
                       /\ q <= 0
        /\ v < 980 => /\ q = Min(cap * (980 - v) * 5, 440 * cap)
                      /\ q >= 0
        /\ v = 950 => q = 150 * cap
        /\ (980 <= v /\ v <= 1020) => q = 0
        /\ Abs(q) <= 440 * cap

\* Absorption saturated at 0.44 of a 150 kW rating.
C23_AbsorptionCapped ==
    /\ inv_in.v = 1200
    /\ inv_in.cap = 150
    /\ inv_out.q_out = -66000

\* C24: for the LLG fault with positive impedances the solver returns
\* I1 = V / (Z1 + Z2*Z0/(Z2+Z0)), I2 = I1 * Z0/(Z2+Z0) and
\* I0 = I1 * Z2/(Z2+Z0), so that I2 + I0 = I1, whatever the fault impedance
\* Zf is.
C24_LLGCurrentDivision ==
    (/\ sc_in.ft = "LLG"
     /\ RLess(RZero, sc_in.Z1)
     /\ RLess(RZero, sc_in.Z2)
     /\ RLess(RZero, sc_in.Z0)) =>
        LET sum == RAdd(sc_in.Z2, sc_in.Z0)
            par == RMul(RMul(sc_in.Z2, sc_in.Z0), RInv(sum))
        IN  /\ ~sc_out.raised
            /\ sc_out.I1 = RMul(sc_in.V, RInv(RAdd(sc_in.Z1, par)))
            /\ sc_out.I2 = RMul(sc_out.I1, RMul(sc_in.Z0, RInv(sum)))
            /\ sc_out.I0 = RMul(sc_out.I1, RMul(sc_in.Z2, RInv(sum)))
            /\ RAdd(sc_out.I2, sc_out.I0) = sc_out.I1
            /\ \A Zf \in FaultImpedances :
                  sc_out = compute_symmetrical_components_physics(
                               "LLG", sc_in.V, sc_in.Z1, sc_in.Z2, sc_in.Z0, Zf)

\* An LLG fault through a fault impedance with unequal Z2 and Z0.
C24_LLGThroughImpedance ==
    /\ sc_in.ft = "LLG"
    /\ sc_in.Z1 = <<1, 5>>
    /\ sc_in.Z2 = <<1, 5>>
    /\ sc_in.Z0 = <<3, 5>>
    /\ sc_in.Zf = <<1, 100>>
    /\ sc_out.I2 = RMul(<<3, 1>>, sc_out.I0)

\* C26: whenever StateEstimator.solve has returned (V, J), the residual that
\* J = r^T W r is computed from was evaluated at the returned state x, on
\* every exit, the exhausted iteration limit included.
C26_CostAtReturnedState ==
    wls.pc = "returned" => wls.r_at_x

\* C25: run_wls_state_estimation feeds the solver the given voltage
\* measurement plus exactly 0.15 pu when fdi_attack is set and the given
\* measurement itself when it is not; P and Q are passed unbiased (in MW and
\* Mvar) in both cases; and the residual is taken from the voltage value fed
\* to the solver.
C25_BiasOnVoltageOnly ==
    wls.pc # "idle" =>
        /\ wls.z[1] = (IF wls.fdi THEN RAdd(wls.given[1], <<3, 20>>) ELSE wls.given[1])
        /\ RMul(wls.z[2], <<1000, 1>>) = wls.given[2]
        /\ RMul(wls.z[3], <<1000, 1>>) = wls.given[3]
        /\ wls.v_ref = wls.z[1]

\* A call under attack with load on the bus has returned.
C25_AttackedCallReturned ==
    /\ wls.pc = "returned"
    /\ wls.fdi
    /\ fdi_attack
    /\ wls.given = <<(<<1, 1>>), (<<50, 1>>), (<<20, 1>>)>>
    /\ wls.z[1] = <<23, 20>>

\* C27: a recloser that is not CLOSED has an active fault, before and after
\* every step; and a step that clears fault_active (FORCE CLEAR, RESET
\* RECLOSER, RESTART) also leaves the recloser CLOSED and relay_trip false.
C27_OpenImpliesFault ==
    [][/\ (recloser_state # "CLOSED" => fault_active)
       /\ (recloser_state' # "CLOSED" => fault_active')
       /\ ((fault_active /\ ~fault_active')
              => (recloser_state' = "CLOSED" /\ ~relay_trip'))]_vars

\* The fault was cleared by the operator in the middle of the wait.
C27_ClearedWhileWaiting ==
    /\ ~fault_active
    /\ recloser_state = "CLOSED"
    /\ ~relay_trip
    /\ recloser_timer = 3
    /\ evals = 0

\* C28: the recloser timer is consistent with the recloser state: 0 in
\* TRIPPED, 0 .. 5 in WAITING (entered at 0), 6 in RECLOSE and in LOCKOUT, so
\* that six evaluations are made in WAITING in every fault episode, later
\* episodes included.
C28_TimerConsistent ==
    /\ (recloser_state = "TRIPPED" => recloser_timer = 0)
    /\ (recloser_state = "WAITING" =>
           /\ 0 <= recloser_timer
           /\ recloser_timer <= 5
           /\ (evals < MaxEvals => recloser_timer = evals - 2))
    /\ (recloser_state \in {"RECLOSE", "LOCKOUT"} => recloser_timer = 6)

\* An episode injected by the operator on the other bus, with the wait at
\* its last evaluation.
C28_LaterEpisodeWaiting ==
    /\ recloser_state = "WAITING"
    /\ recloser_timer = 5
    /\ fault_bus = "bus1005"
    /\ fault_type = "LLG"

====
